---- MODULE Spec2Model ----
(***************************************************************************)
(* HelloTriangleApplication (MrVideo/VulkanTutorial).                      *)
(*                                                                         *)
(* The repository holds four progressive snapshots of the same program:    *)
(*   "instance"          src/main.cpp:833-997   (instance only)            *)
(*   "physicalDevice"    src/unnamed/part_001   (+ messenger, device pick) *)
(*   "imageViews"        src/main.cpp:1-831     (+ surface .. image views) *)
(*   "graphicsPipeline"  src/unnamed/part_000   (+ shaders, layout)        *)
(* The model is run() of the application object: window creation, the      *)
(* initVulkan sequence, the event loop and cleanup, one action per call    *)
(* into the driver or the windowing library, with the driver's answers     *)
(* (device enumeration, surface capabilities, call results) as the         *)
(* environment.                                                            *)
(***************************************************************************)
EXTENDS Integers, Sequences, FiniteSets, TLC

\* ------------------------------------------------------------------------
\* Bounds of the model
\* ------------------------------------------------------------------------
MaxDevices == 2
MaxFamilies == 3
MaxFormats == 3
MaxModes == 2
MaxImages == 2
MaxDim == 2
SmallCount == 2
MaxExtensions == 2
MaxCleanups == 2
\* uint32_t is modelled UintBits wide (TLC integers are 32-bit signed); the
\* wrap-around of unsigned arithmetic is kept
UintBits == 16

\* ------------------------------------------------------------------------
\* Program constants
\* ------------------------------------------------------------------------
UINT32_MAX == 2^UintBits - 1
WINDOW_WIDTH == 800
WINDOW_HEIGHT == 600
EXIT_SUCCESS == 0
EXIT_FAILURE == 1
VK_NULL_HANDLE == 0
nullopt == -1

validationLayers == {"VK_LAYER_KHRONOS_validation"}
deviceExtensions == {"VK_KHR_swapchain"}

VK_FORMAT_B8G8R8_SRGB == "VK_FORMAT_B8G8R8_SRGB"
VK_COLOR_SPACE_SRGB_NONLINEAR_KHR == "VK_COLOR_SPACE_SRGB_NONLINEAR_KHR"
VK_PRESENT_MODE_MAILBOX_KHR == "VK_PRESENT_MODE_MAILBOX_KHR"
VK_PRESENT_MODE_FIFO_KHR == "VK_PRESENT_MODE_FIFO_KHR"
VK_SHARING_MODE_CONCURRENT == "VK_SHARING_MODE_CONCURRENT"
VK_SHARING_MODE_EXCLUSIVE == "VK_SHARING_MODE_EXCLUSIVE"
VK_EXT_DEBUG_UTILS_EXTENSION_NAME == "VK_EXT_debug_utils"
VK_KHR_PORTABILITY_ENUMERATION_EXTENSION_NAME == "VK_KHR_portability_enumeration"
VK_INSTANCE_CREATE_ENUMERATE_PORTABILITY_BIT_KHR ==
    "VK_INSTANCE_CREATE_ENUMERATE_PORTABILITY_BIT_KHR"
VK_STRUCTURE_TYPE_INSTANCE_CREATE_INFO == "VK_STRUCTURE_TYPE_INSTANCE_CREATE_INFO"

\* uint32_t arithmetic and conversion
ToUint32(x) == x % (UINT32_MAX + 1)

Snapshots == {"instance", "physicalDevice", "imageViews", "graphicsPipeline"}

\* enableValidationLayers exists from the second snapshot on
HasValidation(s) == s # "instance"
\* the surface, and with it the presentation queue, from the third on
HasSurface(s) == s \in {"imageViews", "graphicsPipeline"}

\* ------------------------------------------------------------------------
\* QueueFamilyIndices
\* ------------------------------------------------------------------------
NoIndices == [graphicsFamily |-> nullopt, presentFamily |-> nullopt]

has_value(o) == o # nullopt

isComplete(s, ind) ==
    IF HasSurface(s)
    THEN has_value(ind.graphicsFamily) /\ has_value(ind.presentFamily)
    ELSE has_value(ind.graphicsFamily)

\* findQueueFamilies keeping the first match of each kind instead of
\* overwriting it
RECURSIVE findQueueFamiliesLoop_KeepFirst(_, _, _, _)
findQueueFamiliesLoop_KeepFirst(s, queueFamilies, i, ind) ==
    IF i >= Len(queueFamilies) THEN ind
    ELSE LET queueFamily == queueFamilies[i + 1]
             g == IF queueFamily.graphics /\ ~has_value(ind.graphicsFamily)
                  THEN i ELSE ind.graphicsFamily
             p == IF HasSurface(s) /\ queueFamily.present
                     /\ ~has_value(ind.presentFamily)
                  THEN i ELSE ind.presentFamily
             next == [graphicsFamily |-> g, presentFamily |-> p]
         IN  IF isComplete(s, next) THEN next
             ELSE findQueueFamiliesLoop_KeepFirst(s, queueFamilies, i + 1, next)

\* findQueueFamilies taking a graphics-capable family as a presenting one
\* without asking the surface
RECURSIVE findQueueFamiliesLoop_PresentUnasked(_, _, _, _)
findQueueFamiliesLoop_PresentUnasked(s, queueFamilies, i, ind) ==
    IF i >= Len(queueFamilies) THEN ind
    ELSE LET queueFamily == queueFamilies[i + 1]
             g == IF queueFamily.graphics THEN i ELSE ind.graphicsFamily
             p == IF HasSurface(s) /\ queueFamily.graphics
                  THEN i ELSE ind.presentFamily
             next == [graphicsFamily |-> g, presentFamily |-> p]
         IN  IF isComplete(s, next) THEN next
             ELSE findQueueFamiliesLoop_PresentUnasked(s, queueFamilies, i + 1, next)

\* the loop of findQueueFamilies, i counting from 0 as in the code
RECURSIVE findQueueFamiliesLoop(_, _, _, _)
findQueueFamiliesLoop(s, queueFamilies, i, ind) ==
    IF i >= Len(queueFamilies) THEN ind
    ELSE LET queueFamily == queueFamilies[i + 1]
             g == IF queueFamily.graphics THEN i ELSE ind.graphicsFamily
             p == IF HasSurface(s) /\ queueFamily.present
                  THEN i ELSE ind.presentFamily
             next == [graphicsFamily |-> g, presentFamily |-> p]
         IN  IF isComplete(s, next) THEN next
             ELSE findQueueFamiliesLoop(s, queueFamilies, i + 1, next)

findQueueFamilies(s, dev) ==
    findQueueFamiliesLoop(s, dev.queueFamilies, 0, NoIndices)

\* ------------------------------------------------------------------------
\* Device suitability
\* ------------------------------------------------------------------------
checkDeviceExtensionSupport(dev) == (deviceExtensions \ dev.extensions) = {}

querySwapChainSupport(dev) ==
    [capabilities |-> dev.capabilities,
     formats |-> dev.formats,
     presentModes |-> dev.presentModes]

swapChainAdequate(dev) ==
    IF checkDeviceExtensionSupport(dev)
    THEN LET swapChainSupport == querySwapChainSupport(dev)
         IN  swapChainSupport.formats # <<>> /\ swapChainSupport.presentModes # <<>>
    ELSE FALSE

\* isDeviceSuitable without the swap chain support check
isDeviceSuitable_IgnoresSwapChain(s, dev) ==
    IF HasSurface(s)
    THEN /\ isComplete(s, findQueueFamilies(s, dev))
         /\ checkDeviceExtensionSupport(dev)
    ELSE isComplete(s, findQueueFamilies(s, dev))

isDeviceSuitable(s, dev) ==
    IF HasSurface(s)
    THEN /\ isComplete(s, findQueueFamilies(s, dev))
         /\ checkDeviceExtensionSupport(dev)
         /\ swapChainAdequate(dev)
    ELSE isComplete(s, findQueueFamilies(s, dev))

\* ------------------------------------------------------------------------
\* Swap chain negotiation
\* ------------------------------------------------------------------------
\* the format test comparing the pixel format only
IsPreferredFormat_FormatOnly(f) == f.format = VK_FORMAT_B8G8R8_SRGB

IsPreferredFormat(f) ==
    f.format = VK_FORMAT_B8G8R8_SRGB /\ f.colorSpace = VK_COLOR_SPACE_SRGB_NONLINEAR_KHR

RECURSIVE chooseSwapSurfaceFormatLoop(_, _)
chooseSwapSurfaceFormatLoop(availableFormats, k) ==
    IF k > Len(availableFormats) THEN availableFormats[1]
    ELSE IF IsPreferredFormat(availableFormats[k]) THEN availableFormats[k]
    ELSE chooseSwapSurfaceFormatLoop(availableFormats, k + 1)

chooseSwapSurfaceFormat(availableFormats) ==
    chooseSwapSurfaceFormatLoop(availableFormats, 1)

RECURSIVE chooseSwapPresentModeLoop(_, _)
chooseSwapPresentModeLoop(availablePresentModes, k) ==
    IF k > Len(availablePresentModes) THEN VK_PRESENT_MODE_FIFO_KHR
    ELSE IF availablePresentModes[k] = VK_PRESENT_MODE_MAILBOX_KHR
         THEN availablePresentModes[k]
    ELSE chooseSwapPresentModeLoop(availablePresentModes, k + 1)

\* the present mode taken to be mailbox without looking at the list
chooseSwapPresentMode_AlwaysMailbox(availablePresentModes) ==
    VK_PRESENT_MODE_MAILBOX_KHR

\* the present mode falling back to the first supported mode, the way the
\* surface format does
chooseSwapPresentMode_FallsBackToFirst(availablePresentModes) ==
    IF \E k \in 1..Len(availablePresentModes) :
         availablePresentModes[k] = VK_PRESENT_MODE_MAILBOX_KHR
    THEN VK_PRESENT_MODE_MAILBOX_KHR
    ELSE availablePresentModes[1]

chooseSwapPresentMode(availablePresentModes) ==
    chooseSwapPresentModeLoop(availablePresentModes, 1)

\* a clamp that forgets the upper limit
clamp_NoUpperLimit(v, lo, hi) ==
    IF hi < lo THEN {v, lo, hi}
    ELSE IF v < lo THEN {lo}
    ELSE {v}

\* std::clamp(v, lo, hi): defined for lo <= hi; with hi < lo the behaviour
\* is undefined and any of the three arguments may come back.
clamp(v, lo, hi) ==
    IF hi < lo THEN {v, lo, hi}
    ELSE IF v < lo THEN {lo}
    ELSE IF hi < v THEN {hi}
    ELSE {v}

\* chooseSwapExtent taking currentExtent verbatim unless both of its
\* dimensions are 0xFFFFFFFF
chooseSwapExtent_BothDimensions(capabilities, fb) ==
    IF \/ capabilities.currentExtent.width # UINT32_MAX
       \/ capabilities.currentExtent.height # UINT32_MAX
    THEN {capabilities.currentExtent}
    ELSE LET actualExtent == [width |-> ToUint32(fb.width),
                              height |-> ToUint32(fb.height)]
         IN  {[width |-> w, height |-> h] :
                w \in clamp(actualExtent.width,
                            capabilities.minImageExtent.width,
                            capabilities.maxImageExtent.width),
                h \in clamp(actualExtent.height,
                            capabilities.minImageExtent.height,
                            capabilities.maxImageExtent.height)}

\* the set of extents chooseSwapExtent may return
chooseSwapExtent(capabilities, fb) ==
    IF capabilities.currentExtent.width # UINT32_MAX
    THEN {capabilities.currentExtent}
    ELSE LET actualExtent == [width |-> ToUint32(fb.width),
                              height |-> ToUint32(fb.height)]
         IN  {[width |-> w, height |-> h] :
                w \in clamp(actualExtent.width,
                            capabilities.minImageExtent.width,
                            capabilities.maxImageExtent.width),
                h \in clamp(actualExtent.height,
                            capabilities.minImageExtent.height,
                            capabilities.maxImageExtent.height)}

\* the image count clamped even when maxImageCount = 0 means "no limit"
chooseImageCount_ClampsUnbounded(capabilities) ==
    LET imageCount == ToUint32(capabilities.minImageCount + 1)
    IN  IF imageCount > capabilities.maxImageCount
        THEN capabilities.maxImageCount
        ELSE imageCount

\* the image count never clamped to maxImageCount
chooseImageCount_NeverClamps(capabilities) ==
    ToUint32(capabilities.minImageCount + 1)

chooseImageCount(capabilities) ==
    LET imageCount == ToUint32(capabilities.minImageCount + 1)
    IN  IF capabilities.maxImageCount > 0 /\ imageCount > capabilities.maxImageCount
        THEN capabilities.maxImageCount
        ELSE imageCount

\* ------------------------------------------------------------------------
\* State
\* ------------------------------------------------------------------------
VARIABLES
    snapshot,               \* which snapshot of the program is running
    enableValidationLayers, \* compile-time switch (NDEBUG)
    availableLayers,        \* vkEnumerateInstanceLayerProperties
    devices,                \* vkEnumeratePhysicalDevices, in enumeration order
    framebufferSize,        \* glfwGetFramebufferSize
    glfwExtensions,         \* glfwGetRequiredInstanceExtensions
    __APPLE__,              \* the build is one for the Apple platform
    shouldClose,            \* glfwWindowShouldClose
    pc,                     \* the call run() is about to make
    exitStatus,             \* return value of main(), -1 while running
    error,                  \* what() of the exception caught by main()
    alive,                  \* handles created and not yet destroyed
    createLog,              \* handles in the order they were created
    destroyLog,             \* handles in the order they were destroyed
    physicalDevice,         \* position of the selected device, 0 = none
    deviceIdx,              \* position of the range-for in pickPhysicalDevice
    indices,                \* result of the latest findQueueFamilies call
    graphicsQueue,
    presentQueue,
    instanceCreateInfo,     \* VkInstanceCreateInfo handed to the driver
    createInfo,             \* VkSwapchainCreateInfoKHR handed to the driver
    swapChainImages,
    swapChainImageViews,
    swapChainImageFormat,
    swapChainExtent,
    i                       \* loop counter of the image-view loops

env == <<snapshot, enableValidationLayers, availableLayers, devices,
         framebufferSize, glfwExtensions, __APPLE__>>
handles == <<alive, createLog, destroyLog>>
pick == <<physicalDevice, deviceIdx, indices>>
queues == <<graphicsQueue, presentQueue>>
swap == <<createInfo, swapChainImages, swapChainImageFormat, swapChainExtent>>
vars == <<env, shouldClose, pc, exitStatus, error, handles, pick, queues,
          instanceCreateInfo, swap, swapChainImageViews, i>>

H(kind) == [kind |-> kind, idx |-> 0]
ImageView(k) == [kind |-> "imageView", idx |-> k]
NullHandle == [kind |-> "null", idx |-> 0]
NoQueue == [family |-> nullopt]
NoCreateInfo == [minImageCount |-> 0]
NoInstanceCreateInfo == [sType |-> 0]
Uninitialized == "uninitialized"

\* ------------------------------------------------------------------------
\* Control flow of run(): the calls of initWindow, initVulkan, mainLoop and
\* cleanup of each snapshot, in program order
\* ------------------------------------------------------------------------
pickSteps == <<"pickPhysicalDevice", "isDeviceSuitable", "pickPhysicalDeviceEnd">>

pipelineSteps ==
    <<"createGraphicsPipeline", "createVertShaderModule",
      "createFragShaderModule", "vkCreatePipelineLayout",
      "vkDestroyVertShaderModule", "vkDestroyFragShaderModule">>

initVulkanCalls(s) ==
    CASE s = "instance" -> <<"createInstance">>
      [] s = "physicalDevice" ->
            <<"createInstance", "setupDebugMessenger">> \o pickSteps
      [] s = "imageViews" ->
            <<"createInstance", "setupDebugMessenger", "createSurface">>
            \o pickSteps
            \o <<"createLogicalDevice", "createSwapChain",
                 "createImageViews", "vkCreateImageView">>
      [] s = "graphicsPipeline" ->
            <<"createInstance", "setupDebugMessenger", "createSurface">>
            \o pickSteps
            \o <<"createLogicalDevice", "createSwapChain",
                 "createImageViews", "vkCreateImageView">>
            \o pipelineSteps

cleanupCalls(s) ==
    CASE s = "instance" ->
            <<"vkDestroyInstance", "glfwDestroyWindow", "glfwTerminate">>
      [] s = "physicalDevice" ->
            <<"DestroyDebugUtilsMessengerEXT", "vkDestroyInstance",
              "glfwDestroyWindow", "glfwTerminate">>
      [] s = "imageViews" ->
            <<"vkDestroyImageView", "vkDestroySwapchainKHR",
              "vkDestroyDevice", "DestroyDebugUtilsMessengerEXT",
              "vkDestroySurfaceKHR", "vkDestroyInstance",
              "glfwDestroyWindow", "glfwTerminate">>
      [] s = "graphicsPipeline" ->
            <<"vkDestroyPipelineLayout", "vkDestroyImageView",
              "vkDestroySwapchainKHR", "vkDestroyDevice",
              "DestroyDebugUtilsMessengerEXT", "vkDestroySurfaceKHR",
              "vkDestroyInstance", "glfwDestroyWindow", "glfwTerminate">>

\* seq with the calls a and b exchanged, when it makes both
Exchange(seq, a, b) ==
    IF {a, b} \subseteq {seq[k] : k \in 1..Len(seq)}
    THEN [k \in 1..Len(seq) |->
            IF seq[k] = a THEN b ELSE IF seq[k] = b THEN a ELSE seq[k]]
    ELSE seq

\* initVulkan creating the swap chain before the logical device
initVulkan_SwapChainBeforeDevice(s) ==
    Exchange(initVulkanCalls(s), "createLogicalDevice", "createSwapChain")

initVulkan(s) == initVulkanCalls(s)

\* cleanup() in strict reverse of the creation order of surface and
\* debug messenger
cleanup_SurfaceBeforeMessenger(s) ==
    Exchange(cleanupCalls(s), "DestroyDebugUtilsMessengerEXT", "vkDestroySurfaceKHR")

\* cleanup() destroying the device before the swapchain made from it
cleanup_DeviceBeforeSwapchain(s) ==
    Exchange(cleanupCalls(s), "vkDestroyDevice", "vkDestroySwapchainKHR")

cleanup(s) == cleanupCalls(s)

run(s) == <<"initWindow">> \o initVulkan(s) \o <<"mainLoop">> \o cleanup(s)
          \o <<"return">>

PositionOf(seq, step) == CHOOSE k \in 1..Len(seq) : seq[k] = step

\* the call that follows `step` in run()
Succ(step) == run(snapshot)[PositionOf(run(snapshot), step) + 1]

At(step) == pc = step
Advance == pc' = Succ(pc)
Running == /\ UNCHANGED <<exitStatus, error>>

\* an exception main() catches by value: what() of the sliced copy no
\* longer is the message
Throw_Sliced(msg) ==
    /\ pc' = "exit"
    /\ exitStatus' = EXIT_FAILURE
    /\ error' = "std::exception"

\* an exception run() catches to release what was created: cleanup() is
\* entered before the process exits
Throw_EntersCleanup(msg) ==
    /\ pc' = cleanup(snapshot)[1]
    /\ exitStatus' = exitStatus
    /\ error' = msg

\* an exception main() swallows: the process reports success
Throw_ReturnsSuccess(msg) ==
    /\ pc' = "exit"
    /\ exitStatus' = EXIT_SUCCESS
    /\ error' = msg

\* throw std::runtime_error(msg): unwinds to main(), which returns
\* EXIT_FAILURE
Throw(msg) ==
    /\ pc' = "exit"
    /\ exitStatus' = EXIT_FAILURE
    /\ error' = msg

Create(h) ==
    /\ alive' = alive \cup {h}
    /\ createLog' = Append(createLog, h)
    /\ UNCHANGED destroyLog

Destroy(h) ==
    /\ alive' = alive \ {h}
    /\ destroyLog' = Append(destroyLog, h)
    /\ UNCHANGED createLog

VkResults == {"VK_SUCCESS", "VK_ERROR"}

\* ------------------------------------------------------------------------
\* initWindow and initVulkan
\* ------------------------------------------------------------------------
InitWindow ==
    /\ At("initWindow")
    /\ alive' = alive \cup {H("glfw"), H("window")}
    /\ createLog' = createLog \o <<H("glfw"), H("window")>>
    /\ Advance
    /\ UNCHANGED <<env, instanceCreateInfo, shouldClose, exitStatus, error, destroyLog, pick,
                   queues, swap, swapChainImageViews, i>>

\* the layer check satisfied by any available layer at all
checkValidationLayerSupport_AnyLayer(layers) == layers # {}

checkValidationLayerSupport(layers) ==
    \A layerName \in validationLayers : \E l \in layers : l = layerName

\* getRequiredExtensions always asking for the debug-utils extension
getRequiredExtensions_AlwaysDebugUtils(s, windowExtensions, validation) ==
    windowExtensions \o <<VK_EXT_DEBUG_UTILS_EXTENSION_NAME>>

\* the first snapshot passes the extensions of the windowing library as
\* they are; the later ones go through getRequiredExtensions
getRequiredExtensions(s, windowExtensions, validation) ==
    IF HasValidation(s) /\ validation
    THEN Append(windowExtensions, VK_EXT_DEBUG_UTILS_EXTENSION_NAME)
    ELSE windowExtensions

\* the VkInstanceCreateInfo createInstance fills in
InstanceCreateInfo(s, windowExtensions, validation, apple) ==
    LET extensions == getRequiredExtensions(s, windowExtensions, validation)
        requiredExtensions ==
            Append(extensions, VK_KHR_PORTABILITY_ENUMERATION_EXTENSION_NAME)
    IN  [sType |-> VK_STRUCTURE_TYPE_INSTANCE_CREATE_INFO,
         flags |-> IF apple
                   THEN {VK_INSTANCE_CREATE_ENUMERATE_PORTABILITY_BIT_KHR}
                   ELSE {},
         ppEnabledLayerNames |-> IF HasValidation(s) /\ validation
                                 THEN validationLayers ELSE {},
         ppEnabledExtensionNames |-> IF apple THEN requiredExtensions
                                     ELSE extensions]

CreateInstance ==
    /\ At("createInstance")
    /\ IF /\ HasValidation(snapshot)
          /\ enableValidationLayers
          /\ ~checkValidationLayerSupport(availableLayers)
       THEN /\ Throw("[ERROR] Validation layers requested, but not available!")
            /\ UNCHANGED <<handles, instanceCreateInfo>>
       ELSE /\ instanceCreateInfo' =
                 InstanceCreateInfo(snapshot, glfwExtensions,
                                    enableValidationLayers, __APPLE__)
            /\ \E result \in VkResults :
                 IF result # "VK_SUCCESS"
                 THEN /\ Throw("[ERROR] Failed to create instance!")
                      /\ UNCHANGED handles
                 ELSE /\ Create(H("instance"))
                      /\ Advance
                      /\ Running
    /\ UNCHANGED <<env, shouldClose, pick, queues, swap,
                   swapChainImageViews, i>>

SetupDebugMessenger ==
    /\ At("setupDebugMessenger")
    /\ IF ~enableValidationLayers
       THEN /\ Advance
            /\ Running
            /\ UNCHANGED handles
       ELSE \E result \in VkResults :
              IF result # "VK_SUCCESS"
              THEN /\ Throw("[ERROR] Failed to setup the debug messenger!")
                   /\ UNCHANGED handles
              ELSE /\ Create(H("debugMessenger"))
                   /\ Advance
                   /\ Running
    /\ UNCHANGED <<env, instanceCreateInfo, shouldClose, pick, queues, swap,
                   swapChainImageViews, i>>

CreateSurface ==
    /\ At("createSurface")
    /\ \E result \in VkResults :
         IF result # "VK_SUCCESS"
         THEN /\ Throw("[ERROR] Failed to create presentation surface!")
              /\ UNCHANGED handles
         ELSE /\ Create(H("surface"))
              /\ Advance
              /\ Running
    /\ UNCHANGED <<env, instanceCreateInfo, shouldClose, pick, queues, swap,
                   swapChainImageViews, i>>

\* pickPhysicalDevice up to the range-for
PickPhysicalDevice ==
    /\ At("pickPhysicalDevice")
    /\ IF Len(devices) = 0
       THEN /\ Throw("[ERROR] Failed to find GPUs with Vulkan support!")
            /\ UNCHANGED deviceIdx
       ELSE /\ deviceIdx' = 1
            /\ Advance
            /\ Running
    /\ UNCHANGED <<env, instanceCreateInfo, shouldClose, handles, physicalDevice, indices,
                   queues, swap, swapChainImageViews, i>>

\* the range-for without its break: the last suitable device wins
IsDeviceSuitable_NoBreak ==
    /\ At("isDeviceSuitable")
    /\ LET dev == devices[deviceIdx]
       IN  /\ indices' = findQueueFamilies(snapshot, dev)
           /\ physicalDevice' = IF isDeviceSuitable(snapshot, dev)
                                THEN deviceIdx ELSE physicalDevice
           /\ IF deviceIdx < Len(devices)
              THEN /\ deviceIdx' = deviceIdx + 1
                   /\ UNCHANGED pc
              ELSE /\ Advance
                   /\ UNCHANGED deviceIdx
    /\ Running
    /\ UNCHANGED <<env, instanceCreateInfo, shouldClose, handles, queues, swap,
                   swapChainImageViews, i>>

\* one iteration of the range-for: isDeviceSuitable(devices[deviceIdx])
IsDeviceSuitable ==
    /\ At("isDeviceSuitable")
    /\ LET dev == devices[deviceIdx]
       IN  /\ indices' = findQueueFamilies(snapshot, dev)
           /\ IF isDeviceSuitable(snapshot, dev)
              THEN /\ physicalDevice' = deviceIdx
                   /\ Advance
                   /\ UNCHANGED deviceIdx
              ELSE IF deviceIdx < Len(devices)
              THEN /\ deviceIdx' = deviceIdx + 1
                   /\ UNCHANGED <<pc, physicalDevice>>
              ELSE /\ Advance
                   /\ UNCHANGED <<deviceIdx, physicalDevice>>
    /\ Running
    /\ UNCHANGED <<env, instanceCreateInfo, shouldClose, handles, queues, swap,
                   swapChainImageViews, i>>

\* pickPhysicalDevice reporting an unsuitable enumeration as an empty one
PickPhysicalDeviceEnd_SameError ==
    /\ At("pickPhysicalDeviceEnd")
    /\ IF physicalDevice = VK_NULL_HANDLE
       THEN Throw("[ERROR] Failed to find GPUs with Vulkan support!")
       ELSE Advance /\ Running
    /\ UNCHANGED <<env, instanceCreateInfo, shouldClose, handles, pick, queues, swap,
                   swapChainImageViews, i>>

\* pickPhysicalDevice after the range-for
PickPhysicalDeviceEnd ==
    /\ At("pickPhysicalDeviceEnd")
    /\ IF physicalDevice = VK_NULL_HANDLE
       THEN Throw("[ERROR] No suitable GPU found!")
       ELSE Advance /\ Running
    /\ UNCHANGED <<env, instanceCreateInfo, shouldClose, handles, pick, queues, swap,
                   swapChainImageViews, i>>

CreateLogicalDevice ==
    /\ At("createLogicalDevice")
    /\ LET ind == findQueueFamilies(snapshot, devices[physicalDevice])
       IN  /\ indices' = ind
           /\ IF ~has_value(ind.graphicsFamily) \/ ~has_value(ind.presentFamily)
              THEN /\ Throw("bad optional access")
                   /\ UNCHANGED <<handles, queues>>
              ELSE \E result \in VkResults :
                     IF result # "VK_SUCCESS"
                     THEN /\ Throw("[ERROR] Failed to create logical device!")
                          /\ UNCHANGED <<handles, queues>>
                     ELSE /\ Create(H("device"))
                          /\ graphicsQueue' = [family |-> ind.graphicsFamily]
                          /\ presentQueue' = [family |-> ind.presentFamily]
                          /\ Advance
                          /\ Running
    /\ UNCHANGED <<env, instanceCreateInfo, shouldClose, physicalDevice, deviceIdx, swap,
                   swapChainImageViews, i>>

\* the create info declaring the images exclusive whatever the queue
\* families are
SwapchainCreateInfo_AlwaysExclusive(s, dev, extent) ==
    LET swapChainSupport == querySwapChainSupport(dev)
        surfaceFormat == chooseSwapSurfaceFormat(swapChainSupport.formats)
        presentMode == chooseSwapPresentMode(swapChainSupport.presentModes)
    IN  [minImageCount |-> chooseImageCount(swapChainSupport.capabilities),
         imageFormat |-> surfaceFormat.format,
         imageColorSpace |-> surfaceFormat.colorSpace,
         imageExtent |-> extent,
         imageSharingMode |-> VK_SHARING_MODE_EXCLUSIVE,
         queueFamilyIndexCount |-> 0,
         pQueueFamilyIndices |-> <<>>,
         presentMode |-> presentMode]

\* the VkSwapchainCreateInfoKHR createSwapChain fills in
SwapchainCreateInfo(s, dev, extent) ==
    LET swapChainSupport == querySwapChainSupport(dev)
        surfaceFormat == chooseSwapSurfaceFormat(swapChainSupport.formats)
        presentMode == chooseSwapPresentMode(swapChainSupport.presentModes)
        ind == findQueueFamilies(s, dev)
        concurrent == ind.graphicsFamily # ind.presentFamily
    IN  [minImageCount |-> chooseImageCount(swapChainSupport.capabilities),
         imageFormat |-> surfaceFormat.format,
         imageColorSpace |-> surfaceFormat.colorSpace,
         imageExtent |-> extent,
         imageSharingMode |-> IF concurrent THEN VK_SHARING_MODE_CONCURRENT
                              ELSE VK_SHARING_MODE_EXCLUSIVE,
         queueFamilyIndexCount |-> IF concurrent THEN 2 ELSE 0,
         pQueueFamilyIndices |-> IF concurrent
                                 THEN <<ind.graphicsFamily, ind.presentFamily>>
                                 ELSE <<>>,
         presentMode |-> presentMode]

CreateSwapChain ==
    /\ At("createSwapChain")
    /\ LET dev == devices[physicalDevice]
           ind == findQueueFamilies(snapshot, dev)
       IN  /\ indices' = ind
           /\ IF ~has_value(ind.graphicsFamily) \/ ~has_value(ind.presentFamily)
              THEN /\ Throw("bad optional access")
                   /\ UNCHANGED <<handles, swap>>
              ELSE \E extent \in chooseSwapExtent(dev.capabilities, framebufferSize),
                      result \in VkResults :
                     /\ createInfo' = SwapchainCreateInfo(snapshot, dev, extent)
                     /\ IF result # "VK_SUCCESS"
                        THEN /\ Throw("[ERROR] Failed to create swap chain!")
                             /\ UNCHANGED <<handles, swapChainImages,
                                            swapChainImageFormat, swapChainExtent>>
                        ELSE \E n \in 1..MaxImages :
                               /\ Create(H("swapChain"))
                               /\ swapChainImages' = [k \in 1..n |-> k]
                               /\ swapChainImageFormat' = createInfo'.imageFormat
                               /\ swapChainExtent' = extent
                               /\ Advance
                               /\ Running
    /\ UNCHANGED <<env, instanceCreateInfo, shouldClose, physicalDevice, deviceIdx, queues,
                   swapChainImageViews, i>>

\* createImageViews up to the loop: the resize
CreateImageViews ==
    /\ At("createImageViews")
    /\ swapChainImageViews' = [k \in 1..Len(swapChainImages) |-> NullHandle]
    /\ i' = 0
    /\ Advance
    /\ Running
    /\ UNCHANGED <<env, instanceCreateInfo, shouldClose, handles, pick, queues, swap>>

\* the loop of createImageViews making the view of the same image again
\* instead of going on to the next
CreateImageView_SameImageAgain ==
    /\ At("vkCreateImageView")
    /\ IF i < Len(swapChainImages)
       THEN \E result \in VkResults :
              IF result # "VK_SUCCESS"
              THEN /\ Throw("[ERROR] Failed to create image view!")
                   /\ UNCHANGED <<handles, swapChainImageViews, i>>
              ELSE /\ Create(ImageView(i))
                   /\ swapChainImageViews' =
                        [swapChainImageViews EXCEPT ![i + 1] = ImageView(i)]
                   /\ i' \in {i, i + 1}
                   /\ Running
                   /\ UNCHANGED pc
       ELSE /\ Advance
            /\ Running
            /\ UNCHANGED <<handles, swapChainImageViews, i>>
    /\ UNCHANGED <<env, instanceCreateInfo, shouldClose, pick, queues, swap>>

\* the loop of createImageViews going on to the next image after a failure
CreateImageView_SkipsFailed ==
    /\ At("vkCreateImageView")
    /\ IF i < Len(swapChainImages)
       THEN \E result \in VkResults :
              IF result # "VK_SUCCESS"
              THEN /\ i' = i + 1
                   /\ Running
                   /\ UNCHANGED <<pc, handles, swapChainImageViews>>
              ELSE /\ Create(ImageView(i))
                   /\ swapChainImageViews' =
                        [swapChainImageViews EXCEPT ![i + 1] = ImageView(i)]
                   /\ i' = i + 1
                   /\ Running
                   /\ UNCHANGED pc
       ELSE /\ Advance
            /\ Running
            /\ UNCHANGED <<handles, swapChainImageViews, i>>
    /\ UNCHANGED <<env, instanceCreateInfo, shouldClose, pick, queues, swap>>

\* one iteration of the loop of createImageViews, or its exit
CreateImageView ==
    /\ At("vkCreateImageView")
    /\ IF i < Len(swapChainImages)
       THEN \E result \in VkResults :
              IF result # "VK_SUCCESS"
              THEN /\ Throw("[ERROR] Failed to create image view!")
                   /\ UNCHANGED <<handles, swapChainImageViews, i>>
              ELSE /\ Create(ImageView(i))
                   /\ swapChainImageViews' =
                        [swapChainImageViews EXCEPT ![i + 1] = ImageView(i)]
                   /\ i' = i + 1
                   /\ Running
                   /\ UNCHANGED pc
       ELSE /\ Advance
            /\ Running
            /\ UNCHANGED <<handles, swapChainImageViews, i>>
    /\ UNCHANGED <<env, instanceCreateInfo, shouldClose, pick, queues, swap>>

\* createGraphicsPipeline: the two readFile calls
CreateGraphicsPipeline ==
    /\ At("createGraphicsPipeline")
    /\ \E opened \in BOOLEAN :
         IF ~opened
         THEN Throw("[ERROR] Failed to open file!")
         ELSE Advance /\ Running
    /\ UNCHANGED <<env, instanceCreateInfo, shouldClose, handles, pick, queues, swap,
                   swapChainImageViews, i>>

createShaderModule(h) ==
    \E result \in VkResults :
      IF result # "VK_SUCCESS"
      THEN /\ Throw("[ERROR] Failed to create shader module!")
           /\ UNCHANGED handles
      ELSE /\ Create(h)
           /\ Advance
           /\ Running

CreateVertShaderModule ==
    /\ At("createVertShaderModule")
    /\ createShaderModule(H("vertShaderModule"))
    /\ UNCHANGED <<env, instanceCreateInfo, shouldClose, pick, queues, swap,
                   swapChainImageViews, i>>

CreateFragShaderModule ==
    /\ At("createFragShaderModule")
    /\ createShaderModule(H("fragShaderModule"))
    /\ UNCHANGED <<env, instanceCreateInfo, shouldClose, pick, queues, swap,
                   swapChainImageViews, i>>

CreatePipelineLayout ==
    /\ At("vkCreatePipelineLayout")
    /\ \E result \in VkResults :
         IF result # "VK_SUCCESS"
         THEN /\ Throw("[ERROR] Failed to create pipeline layout!")
              /\ UNCHANGED handles
         ELSE /\ Create(H("pipelineLayout"))
              /\ Advance
              /\ Running
    /\ UNCHANGED <<env, instanceCreateInfo, shouldClose, pick, queues, swap,
                   swapChainImageViews, i>>

DestroyVertShaderModule ==
    /\ At("vkDestroyVertShaderModule")
    /\ Destroy(H("vertShaderModule"))
    /\ Advance
    /\ Running
    /\ UNCHANGED <<env, instanceCreateInfo, shouldClose, pick, queues, swap,
                   swapChainImageViews, i>>

\* createGraphicsPipeline returning without destroying the fragment shader
\* module
DestroyFragShaderModule_Skipped ==
    /\ At("vkDestroyFragShaderModule")
    /\ Advance
    /\ Running
    /\ UNCHANGED <<env, instanceCreateInfo, shouldClose, handles, pick, queues, swap,
                   swapChainImageViews, i>>

DestroyFragShaderModule ==
    /\ At("vkDestroyFragShaderModule")
    /\ Destroy(H("fragShaderModule"))
    /\ Advance
    /\ Running
    /\ UNCHANGED <<env, instanceCreateInfo, shouldClose, pick, queues, swap,
                   swapChainImageViews, i>>

\* ------------------------------------------------------------------------
\* mainLoop
\* ------------------------------------------------------------------------
PollEvents ==
    /\ At("mainLoop")
    /\ ~shouldClose
    /\ shouldClose' \in BOOLEAN
    /\ UNCHANGED <<env, instanceCreateInfo, pc, exitStatus, error, handles, pick, queues, swap,
                   swapChainImageViews, i>>

\* mainLoop() returning without asking whether the window should close
MainLoopExit_Unasked ==
    /\ At("mainLoop")
    /\ Advance
    /\ i' = 0
    /\ Running
    /\ UNCHANGED <<env, instanceCreateInfo, shouldClose, handles, pick, queues, swap,
                   swapChainImageViews>>

MainLoopExit ==
    /\ At("mainLoop")
    /\ shouldClose
    /\ Advance
    /\ i' = 0
    /\ Running
    /\ UNCHANGED <<env, instanceCreateInfo, shouldClose, handles, pick, queues, swap,
                   swapChainImageViews>>

\* ------------------------------------------------------------------------
\* cleanup
\* ------------------------------------------------------------------------
DestroyStep(step, h) ==
    /\ At(step)
    /\ Destroy(h)
    /\ Advance
    /\ Running
    /\ UNCHANGED <<env, instanceCreateInfo, shouldClose, pick, queues, swap,
                   swapChainImageViews, i>>

DestroyPipelineLayout == DestroyStep("vkDestroyPipelineLayout", H("pipelineLayout"))

\* cleanup() leaving the view of the last swapchain image alive
DestroyImageView_SkipsLast ==
    /\ At("vkDestroyImageView")
    /\ IF i + 1 < Len(swapChainImageViews)
       THEN /\ Destroy(swapChainImageViews[i + 1])
            /\ i' = i + 1
            /\ UNCHANGED pc
       ELSE /\ Advance
            /\ UNCHANGED <<handles, i>>
    /\ Running
    /\ UNCHANGED <<env, instanceCreateInfo, shouldClose, pick, queues, swap,
                   swapChainImageViews>>

\* one iteration of the range-for over swapChainImageViews, or its exit
DestroyImageView ==
    /\ At("vkDestroyImageView")
    /\ IF i < Len(swapChainImageViews)
       THEN /\ Destroy(swapChainImageViews[i + 1])
            /\ i' = i + 1
            /\ UNCHANGED pc
       ELSE /\ Advance
            /\ UNCHANGED <<handles, i>>
    /\ Running
    /\ UNCHANGED <<env, instanceCreateInfo, shouldClose, pick, queues, swap,
                   swapChainImageViews>>

DestroySwapchain == DestroyStep("vkDestroySwapchainKHR", H("swapChain"))

DestroyDevice == DestroyStep("vkDestroyDevice", H("device"))

\* cleanup() destroying the debug messenger whether or not diagnostics are
\* enabled
DestroyDebugMessenger_Unconditional ==
    /\ At("DestroyDebugUtilsMessengerEXT")
    /\ Destroy(H("debugMessenger"))
    /\ Advance
    /\ Running
    /\ UNCHANGED <<env, instanceCreateInfo, shouldClose, pick, queues, swap,
                   swapChainImageViews, i>>

DestroyDebugMessenger ==
    /\ At("DestroyDebugUtilsMessengerEXT")
    /\ IF enableValidationLayers
       THEN Destroy(H("debugMessenger"))
       ELSE UNCHANGED handles
    /\ Advance
    /\ Running
    /\ UNCHANGED <<env, instanceCreateInfo, shouldClose, pick, queues, swap,
                   swapChainImageViews, i>>

DestroySurface == DestroyStep("vkDestroySurfaceKHR", H("surface"))

DestroyInstance == DestroyStep("vkDestroyInstance", H("instance"))

DestroyWindow == DestroyStep("glfwDestroyWindow", H("window"))

Terminate == DestroyStep("glfwTerminate", H("glfw"))

\* cleanup() has no condition on its entry: called again after it returned,
\* it runs through the same calls on the same members
CleanupAgain ==
    /\ At("return")
    /\ Len(SelectSeq(destroyLog, LAMBDA h : h = H("glfw"))) < MaxCleanups
    /\ pc' = cleanup(snapshot)[1]
    /\ i' = 0
    /\ Running
    /\ UNCHANGED <<env, instanceCreateInfo, shouldClose, handles, pick, queues, swap,
                   swapChainImageViews>>

\* run() returns to main(), which returns EXIT_SUCCESS
Return ==
    /\ At("return")
    /\ pc' = "exit"
    /\ exitStatus' = EXIT_SUCCESS
    /\ UNCHANGED <<env, instanceCreateInfo, shouldClose, error, handles, pick, queues, swap,
                   swapChainImageViews, i>>

\* ------------------------------------------------------------------------
\* The environment: what the driver and the windowing library may report
\* ------------------------------------------------------------------------
SeqsUpTo(S, n) == UNION {[1..k -> S] : k \in 0..n}
NonEmptySeqsUpTo(S, n) == UNION {[1..k -> S] : k \in 1..n}
Range(seq) == {seq[k] : k \in 1..Len(seq)}

Family(g, p) == [graphics |-> g, present |-> p]
Extent(w, h) == [width |-> w, height |-> h]
Format(f, cs) == [format |-> f, colorSpace |-> cs]
Device(families, extensions, capabilities, formats, presentModes) ==
    [queueFamilies |-> families,
     extensions |-> extensions,
     capabilities |-> capabilities,
     formats |-> formats,
     presentModes |-> presentModes]

\* instance extensions glfwGetRequiredInstanceExtensions may ask for
WindowExtensionValues ==
    {"VK_KHR_surface", "VK_KHR_xcb_surface", "VK_EXT_metal_surface"}
DefaultWindowExtensions == <<"VK_KHR_surface", "VK_KHR_xcb_surface">>

\* layers vkEnumerateInstanceLayerProperties may report
LayerValues == validationLayers \cup {"VK_LAYER_LUNARG_api_dump"}

Families == {Family(g, p) : g \in BOOLEAN, p \in BOOLEAN}
PreferredFormat == Format(VK_FORMAT_B8G8R8_SRGB, VK_COLOR_SPACE_SRGB_NONLINEAR_KHR)
FormatValues ==
    {Format(f, cs) :
       f \in {VK_FORMAT_B8G8R8_SRGB, "VK_FORMAT_R8G8B8_UNORM"},
       cs \in {VK_COLOR_SPACE_SRGB_NONLINEAR_KHR,
               "VK_COLOR_SPACE_DISPLAY_P3_NONLINEAR_EXT"}}
PresentModeValues ==
    {"VK_PRESENT_MODE_IMMEDIATE_KHR", VK_PRESENT_MODE_MAILBOX_KHR,
     VK_PRESENT_MODE_FIFO_KHR}

WindowSize == Extent(WINDOW_WIDTH, WINDOW_HEIGHT)
DefaultCapabilities ==
    [minImageCount |-> 2,
     maxImageCount |-> 0,
     currentExtent |-> Extent(UINT32_MAX, UINT32_MAX),
     minImageExtent |-> Extent(1, 1),
     maxImageExtent |-> Extent(4096, 4096)]

\* devices of the whole-run specification
UnifiedDevice ==
    Device(<<Family(TRUE, TRUE)>>, deviceExtensions, DefaultCapabilities,
           <<PreferredFormat>>, <<VK_PRESENT_MODE_FIFO_KHR>>)
SplitDevice ==
    Device(<<Family(TRUE, FALSE), Family(FALSE, TRUE)>>, deviceExtensions,
           DefaultCapabilities, <<PreferredFormat>>, <<VK_PRESENT_MODE_FIFO_KHR>>)
ComputeDevice ==
    Device(<<Family(FALSE, FALSE)>>, deviceExtensions, DefaultCapabilities,
           <<PreferredFormat>>, <<VK_PRESENT_MODE_FIFO_KHR>>)
RunDevices == {UnifiedDevice, SplitDevice, ComputeDevice}

\* devices of the device-selection specification: every combination of
\* the defects isDeviceSuitable looks at
DefectFamilies ==
    {<<>>, <<Family(TRUE, FALSE)>>, <<Family(FALSE, TRUE)>>,
     <<Family(TRUE, TRUE)>>, <<Family(TRUE, FALSE), Family(FALSE, TRUE)>>}
DefectDevices ==
    {Device(fam, ext, DefaultCapabilities, fmts, modes) :
       fam \in DefectFamilies,
       ext \in {{}, deviceExtensions},
       fmts \in {<<>>, <<PreferredFormat>>},
       modes \in {<<>>, <<VK_PRESENT_MODE_FIFO_KHR>>}}
\* ... and every sequence of queue families on an otherwise good device
FamilyDevices ==
    {Device(fam, deviceExtensions, DefaultCapabilities,
            <<PreferredFormat>>, <<VK_PRESENT_MODE_FIFO_KHR>>) :
       fam \in SeqsUpTo(Families, MaxFamilies)}
PickEnumerations ==
    SeqsUpTo(DefectDevices, MaxDevices) \cup {<<d>> : d \in FamilyDevices}

\* devices of the swap-chain specification: suitable devices, varying one
\* of image counts, extents, formats and present modes at a time
CountValues == (0..SmallCount) \cup {UINT32_MAX - 1, UINT32_MAX}
DimValues == (1..MaxDim) \cup {UINT32_MAX}
SuitableFamilies ==
    {<<Family(TRUE, TRUE)>>, <<Family(TRUE, FALSE), Family(FALSE, TRUE)>>}
CountCapabilities ==
    {[DefaultCapabilities EXCEPT !.minImageCount = lo, !.maxImageCount = hi] :
       lo \in CountValues, hi \in CountValues}
ExtentCapabilities ==
    {[DefaultCapabilities EXCEPT !.currentExtent = Extent(cw, ch),
                                 !.minImageExtent = Extent(lw, lh),
                                 !.maxImageExtent = Extent(hw, hh)] :
       cw \in DimValues, ch \in DimValues,
       lw \in 1..MaxDim, lh \in 1..MaxDim,
       hw \in 1..MaxDim, hh \in 1..MaxDim}
FramebufferSizes == {Extent(w, h) : w \in 0..(MaxDim + 1), h \in 0..(MaxDim + 1)}
SwapDevices ==
    {Device(fam, deviceExtensions, caps, <<PreferredFormat>>,
            <<VK_PRESENT_MODE_FIFO_KHR>>) :
       fam \in SuitableFamilies, caps \in CountCapabilities}
    \cup
    {Device(<<Family(TRUE, TRUE)>>, deviceExtensions, DefaultCapabilities,
            fmts, <<VK_PRESENT_MODE_FIFO_KHR>>) :
       fmts \in NonEmptySeqsUpTo(FormatValues, MaxFormats)}
    \cup
    {Device(<<Family(TRUE, TRUE)>>, deviceExtensions, DefaultCapabilities,
            <<PreferredFormat>>, modes) :
       modes \in NonEmptySeqsUpTo(PresentModeValues, MaxModes)}
ExtentDevices ==
    {Device(<<Family(TRUE, TRUE)>>, deviceExtensions, caps,
            <<PreferredFormat>>, <<VK_PRESENT_MODE_FIFO_KHR>>) :
       caps \in ExtentCapabilities}

\* ------------------------------------------------------------------------
\* Initial states
\* ------------------------------------------------------------------------
NotExited == -1

\* the fields of a freshly constructed HelloTriangleApplication
Constructed ==
    /\ shouldClose = FALSE
    /\ exitStatus = NotExited
    /\ error = ""
    /\ destroyLog = <<>>
    /\ createInfo = NoCreateInfo
    /\ swapChainImages = <<>>
    /\ swapChainImageViews = <<>>
    /\ swapChainImageFormat = Uninitialized
    /\ swapChainExtent = Extent(0, 0)
    /\ i = 0

\* main() constructs the application and calls run()
Init ==
    /\ snapshot \in Snapshots
    /\ enableValidationLayers \in
         (IF HasValidation(snapshot) THEN BOOLEAN ELSE {FALSE})
    /\ availableLayers \in SUBSET LayerValues
    /\ devices \in SeqsUpTo(RunDevices, MaxDevices)
    /\ framebufferSize = WindowSize
    /\ glfwExtensions = DefaultWindowExtensions
    /\ __APPLE__ = FALSE
    /\ instanceCreateInfo = NoInstanceCreateInfo
    /\ Constructed
    /\ pc = "initWindow"
    /\ alive = {}
    /\ createLog = <<>>
    /\ physicalDevice = VK_NULL_HANDLE
    /\ deviceIdx = 0
    /\ indices = NoIndices
    /\ graphicsQueue = NoQueue
    /\ presentQueue = NoQueue

\* run() about to call createInstance, for every list of extensions the
\* windowing library may ask for and both kinds of build
InitInstance ==
    /\ snapshot \in Snapshots
    /\ enableValidationLayers \in
         (IF HasValidation(snapshot) THEN BOOLEAN ELSE {FALSE})
    /\ availableLayers \in SUBSET LayerValues
    /\ devices = <<UnifiedDevice>>
    /\ framebufferSize = WindowSize
    /\ glfwExtensions \in SeqsUpTo(WindowExtensionValues, MaxExtensions)
    /\ __APPLE__ \in BOOLEAN
    /\ instanceCreateInfo = NoInstanceCreateInfo
    /\ Constructed
    /\ pc = "createInstance"
    /\ createLog = <<H("glfw"), H("window")>>
    /\ alive = Range(createLog)
    /\ physicalDevice = VK_NULL_HANDLE
    /\ deviceIdx = 0
    /\ indices = NoIndices
    /\ graphicsQueue = NoQueue
    /\ presentQueue = NoQueue

\* handles alive when initVulkan reaches pickPhysicalDevice
BeforePick(v) ==
    <<H("glfw"), H("window"), H("instance")>>
    \o (IF v THEN <<H("debugMessenger")>> ELSE <<>>)
    \o <<H("surface")>>

\* run() about to call pickPhysicalDevice, for every enumeration
InitPick ==
    /\ snapshot = "graphicsPipeline"
    /\ enableValidationLayers \in BOOLEAN
    /\ availableLayers = validationLayers
    /\ devices \in PickEnumerations
    /\ framebufferSize = WindowSize
    /\ glfwExtensions = DefaultWindowExtensions
    /\ __APPLE__ = FALSE
    /\ instanceCreateInfo =
         InstanceCreateInfo(snapshot, glfwExtensions, enableValidationLayers,
                            __APPLE__)
    /\ Constructed
    /\ pc = "pickPhysicalDevice"
    /\ createLog = BeforePick(enableValidationLayers)
    /\ alive = Range(createLog)
    /\ physicalDevice = VK_NULL_HANDLE
    /\ deviceIdx = 0
    /\ indices = NoIndices
    /\ graphicsQueue = NoQueue
    /\ presentQueue = NoQueue

\* run() about to call createSwapChain on the selected device, for every
\* capabilities snapshot and framebuffer size
InitSwap ==
    /\ snapshot = "graphicsPipeline"
    /\ enableValidationLayers = FALSE
    /\ availableLayers = validationLayers
    /\ \/ /\ devices \in {<<d>> : d \in SwapDevices}
          /\ framebufferSize = WindowSize
       \/ /\ devices \in {<<d>> : d \in ExtentDevices}
          /\ framebufferSize \in FramebufferSizes
    /\ glfwExtensions = DefaultWindowExtensions
    /\ __APPLE__ = FALSE
    /\ instanceCreateInfo =
         InstanceCreateInfo(snapshot, glfwExtensions, enableValidationLayers,
                            __APPLE__)
    /\ Constructed
    /\ pc = "createSwapChain"
    /\ createLog = BeforePick(enableValidationLayers) \o <<H("device")>>
    /\ alive = Range(createLog)
    /\ physicalDevice = 1
    /\ deviceIdx = 1
    /\ indices = findQueueFamilies(snapshot, devices[1])
    /\ graphicsQueue = [family |-> indices.graphicsFamily]
    /\ presentQueue = [family |-> indices.presentFamily]

\* ------------------------------------------------------------------------
\* Specifications
\* ------------------------------------------------------------------------
Next ==
    \/ InitWindow
    \/ CreateInstance
    \/ SetupDebugMessenger
    \/ CreateSurface
    \/ PickPhysicalDevice
    \/ IsDeviceSuitable
    \/ PickPhysicalDeviceEnd
    \/ CreateLogicalDevice
    \/ CreateSwapChain
    \/ CreateImageViews
    \/ CreateImageView
    \/ CreateGraphicsPipeline
    \/ CreateVertShaderModule
    \/ CreateFragShaderModule
    \/ CreatePipelineLayout
    \/ DestroyVertShaderModule
    \/ DestroyFragShaderModule
    \/ PollEvents
    \/ MainLoopExit
    \/ DestroyPipelineLayout
    \/ DestroyImageView
    \/ DestroySwapchain
    \/ DestroyDevice
    \/ DestroyDebugMessenger
    \/ DestroySurface
    \/ DestroyInstance
    \/ DestroyWindow
    \/ Terminate
    \/ Return

Spec == Init /\ [][Next]_vars

\* a step of the program other than another round of the event loop: the
\* single thread of run() takes the call it is at, whereas nothing makes
\* the window close
ProgramStep == Next /\ (pc # "mainLoop" \/ shouldClose)

\* the whole run, the thread of run() never halting before the exit
SpecLive == Init /\ [][Next]_vars /\ WF_vars(ProgramStep)

\* the whole run, with cleanup() invoked again after it returned
NextReentry == Next \/ CleanupAgain

SpecReentry == Init /\ [][NextReentry]_vars

NextInstance == CreateInstance

SpecInstance == InitInstance /\ [][NextInstance]_vars

NextPick == PickPhysicalDevice \/ IsDeviceSuitable \/ PickPhysicalDeviceEnd

SpecPick == InitPick /\ [][NextPick]_vars

\* device selection followed by the two steps that use the selected device
NextNegotiate ==
    \/ PickPhysicalDevice
    \/ IsDeviceSuitable
    \/ PickPhysicalDeviceEnd
    \/ CreateLogicalDevice
    \/ CreateSwapChain

SpecNegotiate == InitPick /\ [][NextNegotiate]_vars

NextSwap == CreateSwapChain

SpecSwap == InitSwap /\ [][NextSwap]_vars

\* ------------------------------------------------------------------------
\* Properties: teardown
\* ------------------------------------------------------------------------
Reverse(seq) == [k \in 1..Len(seq) |-> seq[Len(seq) + 1 - k]]
Destroyed == Range(destroyLog)
Finished == pc = "exit" /\ exitStatus = EXIT_SUCCESS

\* the handles cleanup() is responsible for, window and library aside
TrackedKinds ==
    {"instance", "debugMessenger", "surface", "device", "swapChain",
     "imageView", "pipelineLayout"}
IsTracked(h) == h.kind \in TrackedKinds
TrackedCreated == SelectSeq(createLog, IsTracked)
TrackedDestroyed == SelectSeq(destroyLog, IsTracked)

CleanupOrder ==
    <<H("pipelineLayout")>>
    \o [k \in 1..Len(swapChainImageViews) |-> ImageView(k - 1)]
    \o <<H("swapChain"), H("device")>>
    \o (IF enableValidationLayers THEN <<H("debugMessenger")>> ELSE <<>>)
    \o <<H("surface"), H("instance")>>

DestroyedBefore(a, b) ==
    \/ a.kind \in {"pipelineLayout", "imageView", "swapChain"} /\ b.kind = "device"
    \/ a.kind = "device" /\ b.kind \in {"surface", "debugMessenger"}
    \/ a.kind \in (TrackedKinds \ {"instance"}) /\ b.kind = "instance"
    \/ a.kind = "instance" /\ b.kind \in {"window", "glfw"}

\* C2: in every snapshot, no handle is destroyed while a handle that has
\* to go first is alive: the device after the pipeline layout, the image
\* views and the swapchain; the surface and the debug messenger after the
\* device; the instance after every other graphics handle; the window and
\* the windowing library after the instance.
C2_DependencyOrder ==
    \A b \in Destroyed : \A a \in alive : ~DestroyedBefore(a, b)

\* cleanup() of the last snapshot ran to its end with every handle created
C2_Witness ==
    /\ Finished
    /\ snapshot = "graphicsPipeline"
    /\ enableValidationLayers
    /\ alive = {}
    /\ Len(destroyLog) = Len(createLog)
    /\ H("glfw") \in Destroyed

\* ------------------------------------------------------------------------
\* Properties: device selection
\* ------------------------------------------------------------------------
PickDone == pc \in {"pickPhysicalDeviceEnd", "createLogicalDevice"}
SuitablePositions ==
    {k \in 1..Len(devices) : isDeviceSuitable(snapshot, devices[k])}

\* C3: once the loop of pickPhysicalDevice is over, the selected device is
\* the first one of the enumeration that isDeviceSuitable accepts (none if
\* it accepts none): it is suitable and every device before it is not.
C3_FirstSuitable ==
    PickDone =>
        IF SuitablePositions = {}
        THEN physicalDevice = VK_NULL_HANDLE
        ELSE /\ physicalDevice \in SuitablePositions
             /\ \A k \in 1..(physicalDevice - 1) : k \notin SuitablePositions

\* two different suitable devices were enumerated and the first was taken
C3_Witness ==
    /\ pc = "createLogicalDevice"
    /\ Len(devices) = 2
    /\ SuitablePositions = {1, 2}
    /\ devices[1] # devices[2]
    /\ physicalDevice = 1

HasGraphicsFamily(dev) ==
    \E k \in 1..Len(dev.queueFamilies) : dev.queueFamilies[k].graphics
HasPresentFamily(dev) ==
    \E k \in 1..Len(dev.queueFamilies) : dev.queueFamilies[k].present
Defective(dev) ==
    \/ ~HasGraphicsFamily(dev)
    \/ ~HasPresentFamily(dev)
    \/ ~(deviceExtensions \subseteq dev.extensions)
    \/ Len(dev.formats) = 0
    \/ Len(dev.presentModes) = 0

Examined == IF pc = "isDeviceSuitable" THEN deviceIdx - 1 ELSE deviceIdx
GraphicsPositions(dev) ==
    {k \in 0..(Len(dev.queueFamilies) - 1) : dev.queueFamilies[k + 1].graphics}
PresentPositions(dev) ==
    {k \in 0..(Len(dev.queueFamilies) - 1) : dev.queueFamilies[k + 1].present}
Lowest(S) == IF S = {} THEN nullopt ELSE CHOOSE x \in S : \A y \in S : x <= y
Highest(S) == IF S = {} THEN nullopt ELSE CHOOSE x \in S : \A y \in S : x >= y

\* C5 as stated: findQueueFamilies records the lowest graphics-capable
\* family index and, independently, the lowest presentation-capable one.
C5_LowestIndices ==
    Examined >= 1 =>
        /\ indices.graphicsFamily = Lowest(GraphicsPositions(devices[Examined]))
        /\ indices.presentFamily = Lowest(PresentPositions(devices[Examined]))

\* the position at which the scan stops: the first one by which a graphics
\* and a presentation family have both been seen, else the last one
StopPosition(dev) ==
    LET both == {k \in 0..(Len(dev.queueFamilies) - 1) :
                   /\ \E g \in GraphicsPositions(dev) : g <= k
                   /\ \E p \in PresentPositions(dev) : p <= k}
    IN  IF both = {} THEN Len(dev.queueFamilies) - 1 ELSE Lowest(both)

\* C5 amended: findQueueFamilies scans the families in order and stops
\* early only once both indices are found; graphicsFamily is the highest
\* graphics-capable index scanned and presentFamily the highest
\* presentation-capable index scanned (a later match overwrites an earlier
\* one), nullopt when no scanned family has the capability.
C5_HighestScannedIndices ==
    Examined >= 1 =>
        LET dev == devices[Examined]
            stop == StopPosition(dev)
        IN  /\ indices.graphicsFamily =
                 Highest({g \in GraphicsPositions(dev) : g <= stop})
            /\ indices.presentFamily =
                 Highest({p \in PresentPositions(dev) : p <= stop})

\* two graphics-only families precede the first presenting one: the second
\* graphics index is recorded
C5_Witness ==
    /\ Examined = 1
    /\ GraphicsPositions(devices[1]) = {0, 1}
    /\ PresentPositions(devices[1]) = {2}
    /\ indices = [graphicsFamily |-> 1, presentFamily |-> 2]

\* ------------------------------------------------------------------------
\* Properties: swap chain negotiation
\* ------------------------------------------------------------------------
\* createSwapChain has filled in its VkSwapchainCreateInfoKHR
Negotiated == createInfo # NoCreateInfo
Capabilities == devices[physicalDevice].capabilities
Sentinel == Extent(UINT32_MAX, UINT32_MAX)

Within(v, lo, hi) == lo <= v /\ v <= hi
Clamped(v, lo, hi) == IF v < lo THEN lo ELSE IF v > hi THEN hi ELSE v
ClampedFramebuffer ==
    Extent(Clamped(framebufferSize.width,
                   Capabilities.minImageExtent.width,
                   Capabilities.maxImageExtent.width),
           Clamped(framebufferSize.height,
                   Capabilities.minImageExtent.height,
                   Capabilities.maxImageExtent.height))
\* minImageExtent <= maxImageExtent in both dimensions
OrderedExtents ==
    /\ Capabilities.minImageExtent.width <= Capabilities.maxImageExtent.width
    /\ Capabilities.minImageExtent.height <= Capabilities.maxImageExtent.height

\* C6 as stated: the extent is the clamped framebuffer size exactly when
\* currentExtent is (0xFFFFFFFF, 0xFFFFFFFF), and currentExtent itself for
\* every other currentExtent.
C6_SentinelIsBothDimensions ==
    (Negotiated /\ OrderedExtents) =>
        IF Capabilities.currentExtent = Sentinel
        THEN createInfo.imageExtent = ClampedFramebuffer
        ELSE createInfo.imageExtent = Capabilities.currentExtent

\* C6 amended: if currentExtent.width is 0xFFFFFFFF, whatever the height,
\* the extent is the framebuffer size with width and height clamped
\* independently into [minExtent, maxExtent]; for every other currentExtent
\* (including one where only the height is 0xFFFFFFFF) it is currentExtent
\* exactly, regardless of the framebuffer size.
C6_SentinelIsWidth ==
    Negotiated =>
        IF Capabilities.currentExtent.width = UINT32_MAX
        THEN OrderedExtents => createInfo.imageExtent = ClampedFramebuffer
        ELSE createInfo.imageExtent = Capabilities.currentExtent

\* only the width is the sentinel, and the framebuffer size was clamped
C6_Witness ==
    /\ Negotiated
    /\ OrderedExtents
    /\ Capabilities.currentExtent.width = UINT32_MAX
    /\ Capabilities.currentExtent.height # UINT32_MAX
    /\ createInfo.imageExtent = ClampedFramebuffer
    /\ createInfo.imageExtent # framebufferSize

\* C7 as stated: the requested image count is minImageCount + 1 when
\* maxImageCount = 0, maxImageCount when maxImageCount > 0 and
\* minImageCount + 1 > maxImageCount, and minImageCount + 1 otherwise.
C7_ImageCount ==
    Negotiated =>
        createInfo.minImageCount =
            IF Capabilities.maxImageCount = 0
            THEN Capabilities.minImageCount + 1
            ELSE IF Capabilities.minImageCount + 1 > Capabilities.maxImageCount
            THEN Capabilities.maxImageCount
            ELSE Capabilities.minImageCount + 1

\* minImageCount + 1 as uint32_t computes it
WrappedSuccessor(n) == IF n = UINT32_MAX THEN 0 ELSE n + 1

\* C7 amended: with minImageCount + 1 computed in unsigned 32-bit
\* arithmetic (0 when minImageCount = 0xFFFFFFFF), the requested image
\* count is that sum when maxImageCount = 0, maxImageCount when
\* maxImageCount > 0 and the sum exceeds it, and the sum otherwise.
C7_WrappedImageCount ==
    Negotiated =>
        LET count == WrappedSuccessor(Capabilities.minImageCount)
        IN  createInfo.minImageCount =
                IF Capabilities.maxImageCount = 0 THEN count
                ELSE IF count > Capabilities.maxImageCount
                THEN Capabilities.maxImageCount
                ELSE count

\* the sum wrapped: no image at all is requested
C7_Witness ==
    /\ Negotiated
    /\ Capabilities.minImageCount = UINT32_MAX
    /\ Capabilities.maxImageCount = 0
    /\ createInfo.minImageCount = 0

\* C8 as stated: minImageCount <= imageCount, and imageCount <=
\* maxImageCount whenever maxImageCount is not 0.
C8_CountWithinLimits ==
    Negotiated =>
        /\ Capabilities.minImageCount <= createInfo.minImageCount
        /\ Capabilities.maxImageCount # 0 =>
               createInfo.minImageCount <= Capabilities.maxImageCount

\* C8 amended: imageCount <= maxImageCount whenever maxImageCount is not 0;
\* minImageCount <= imageCount whenever minImageCount < 0xFFFFFFFF and the
\* snapshot has maxImageCount = 0 or minImageCount <= maxImageCount.
C8_CountWithinConsistentLimits ==
    Negotiated =>
        /\ Capabilities.maxImageCount # 0 =>
               createInfo.minImageCount <= Capabilities.maxImageCount
        /\ ( /\ Capabilities.minImageCount < UINT32_MAX
             /\ \/ Capabilities.maxImageCount = 0
                \/ Capabilities.minImageCount <= Capabilities.maxImageCount )
           => Capabilities.minImageCount <= createInfo.minImageCount

\* the device ceiling equals the minimum, and the count was clamped to it
C8_Witness ==
    /\ Negotiated
    /\ Capabilities.maxImageCount # 0
    /\ Capabilities.minImageCount = Capabilities.maxImageCount
    /\ createInfo.minImageCount = Capabilities.maxImageCount

ExtentWithinLimits(e) ==
    /\ Within(e.width, Capabilities.minImageExtent.width,
              Capabilities.maxImageExtent.width)
    /\ Within(e.height, Capabilities.minImageExtent.height,
              Capabilities.maxImageExtent.height)

\* C9 as stated: the extent of every swapchain configuration lies within
\* [minExtent, maxExtent] in both dimensions (stated here for the snapshots
\* where that interval is not empty).
C9_ExtentWithinLimits ==
    (Negotiated /\ OrderedExtents) => ExtentWithinLimits(createInfo.imageExtent)

\* C9 amended: the extent lies within [minExtent, maxExtent] in both
\* dimensions for every framebuffer size, provided minExtent <= maxExtent
\* in both dimensions and, when currentExtent is used verbatim (its width
\* is not 0xFFFFFFFF), currentExtent itself lies within those limits.
C9_ExtentWithinConsistentLimits ==
    ( /\ Negotiated
      /\ OrderedExtents
      /\ \/ Capabilities.currentExtent.width = UINT32_MAX
         \/ ExtentWithinLimits(Capabilities.currentExtent) )
    => ExtentWithinLimits(createInfo.imageExtent)

\* the framebuffer was wider than maxExtent and lower than minExtent, and
\* the extent was brought within the limits
C9_Witness ==
    /\ Negotiated
    /\ OrderedExtents
    /\ Capabilities.currentExtent.width = UINT32_MAX
    /\ framebufferSize.width > Capabilities.maxImageExtent.width
    /\ framebufferSize.height < Capabilities.minImageExtent.height
    /\ ExtentWithinLimits(createInfo.imageExtent)

SupportedFormats == devices[physicalDevice].formats
ChosenFormat == Format(createInfo.imageFormat, createInfo.imageColorSpace)

\* C10: if the supported-format list holds the pair (B8G8R8_SRGB,
\* SRGB_NONLINEAR) at any position the chosen format is that pair, and if
\* not it is the first element of the list.
C10_FormatFallback ==
    Negotiated =>
        IF \E k \in 1..Len(SupportedFormats) : SupportedFormats[k] = PreferredFormat
        THEN ChosenFormat = PreferredFormat
        ELSE ChosenFormat = SupportedFormats[1]

\* the preferred pair stood last in a list of three and was chosen
C10_Witness ==
    /\ Negotiated
    /\ Len(SupportedFormats) = 3
    /\ SupportedFormats[1] # PreferredFormat
    /\ SupportedFormats[2] # PreferredFormat
    /\ SupportedFormats[3] = PreferredFormat
    /\ ChosenFormat = PreferredFormat

SupportedPresentModes == devices[physicalDevice].presentModes

\* C11: if the supported present-mode list holds the mailbox mode the
\* chosen present mode is mailbox, and if not it is FIFO, for every
\* non-empty list.
C11_PresentModeFallback ==
    Negotiated =>
      createInfo.presentMode =
        IF VK_PRESENT_MODE_MAILBOX_KHR \in Range(SupportedPresentModes)
        THEN VK_PRESENT_MODE_MAILBOX_KHR
        ELSE VK_PRESENT_MODE_FIFO_KHR

\* the list holds neither mailbox nor FIFO, and FIFO was chosen
C11_Witness ==
    /\ Negotiated
    /\ SupportedPresentModes = <<"VK_PRESENT_MODE_IMMEDIATE_KHR">>
    /\ createInfo.presentMode = VK_PRESENT_MODE_FIFO_KHR

\* C12: the swapchain images are declared concurrent, with exactly the two
\* indices (graphics, present) listed, if and only if the graphics and the
\* present queue family index differ; when they are equal the images are
\* declared exclusive with a family-index count of zero and no family list.
C12_SharingMode ==
    Negotiated =>
      IF indices.graphicsFamily # indices.presentFamily
      THEN /\ createInfo.imageSharingMode = VK_SHARING_MODE_CONCURRENT
           /\ createInfo.queueFamilyIndexCount = 2
           /\ createInfo.pQueueFamilyIndices =
                <<indices.graphicsFamily, indices.presentFamily>>
      ELSE /\ createInfo.imageSharingMode = VK_SHARING_MODE_EXCLUSIVE
           /\ createInfo.queueFamilyIndexCount = 0
           /\ createInfo.pQueueFamilyIndices = <<>>

\* graphics on family 0 and presentation on family 1: concurrent images
C12_Witness ==
    /\ Negotiated
    /\ indices.graphicsFamily = 0
    /\ indices.presentFamily = 1
    /\ createInfo.imageSharingMode = VK_SHARING_MODE_CONCURRENT
    /\ createInfo.pQueueFamilyIndices = <<0, 1>>

\* ------------------------------------------------------------------------
\* Properties: failures
\* ------------------------------------------------------------------------
NoError == ""
Failed == error # NoError
Exited == pc = "exit"
InitSteps == Range(initVulkan(snapshot))
EventLoopAndCleanup == {"mainLoop", "return"} \cup Range(cleanup(snapshot))

\* C13: a failing step is a step of initVulkan and takes the run straight
\* to the exit of the process with a non-zero status: after it no later
\* initialization step, no event loop and no cleanup call is made; a run
\* that exits without a failure has left the event loop and exits with
\* status zero.
C13_FailureAborts ==
    /\ [](Failed => Exited /\ exitStatus # 0)
    /\ [](Exited /\ ~Failed => exitStatus = 0 /\ shouldClose)
    /\ [][/\ error' # error => pc \in InitSteps /\ pc' = "exit"
          /\ pc \in EventLoopAndCleanup => ~Failed /\ error' = error
          /\ ~Exited]_vars

\* the second image view could not be created: the run ended with status
\* 1, everything created so far still there, the pipeline never started
C13_Witness ==
    /\ Exited
    /\ error = "[ERROR] Failed to create image view!"
    /\ exitStatus = EXIT_FAILURE
    /\ ImageView(0) \in alive
    /\ ImageView(1) \notin alive
    /\ ~shouldClose

\* C14: when initialization fails, nothing created before the failing step
\* is destroyed: from the failure to the exit of the process no destroy
\* operation has been invoked and every handle created is still alive.
C14_NoCleanupOnFailure ==
    Failed => /\ destroyLog = <<>>
              /\ alive = Range(createLog)

\* the pipeline layout could not be created: the process exited with the
\* window, the instance, the device, the swapchain, an image view and both
\* shader modules alive
C14_Witness ==
    /\ Exited
    /\ error = "[ERROR] Failed to create pipeline layout!"
    /\ {H("window"), H("instance"), H("surface"), H("device"), H("swapChain"),
        ImageView(0), H("vertShaderModule"), H("fragShaderModule")}
         \subseteq alive
    /\ destroyLog = <<>>

LayerUnavailable == "[ERROR] Validation layers requested, but not available!"
LayerMissing == \E layerName \in validationLayers : layerName \notin availableLayers
PastCreateInstance == pc \notin {"initWindow", "createInstance"}
GraphicsHandles == {h \in Range(createLog) : h.kind \notin {"glfw", "window"}}

\* C15: with diagnostics enabled and a required validation layer missing
\* from the available-layer list, createInstance fails with the
\* layer-unavailable error before the instance or any other graphics
\* handle is created; with diagnostics disabled the layer list plays no
\* part and a missing layer is never the cause of a failure.
C15_LayerCheck ==
    /\ (enableValidationLayers /\ LayerMissing /\ PastCreateInstance)
         => /\ Exited
            /\ error = LayerUnavailable
            /\ GraphicsHandles = {}
    /\ (~enableValidationLayers \/ ~LayerMissing) => error # LayerUnavailable

\* diagnostics on, a layer other than the required one available: the run
\* ended in createInstance with only the window made
C15_Witness ==
    /\ enableValidationLayers
    /\ availableLayers = {"VK_LAYER_LUNARG_api_dump"}
    /\ Exited
    /\ error = LayerUnavailable
    /\ alive = {H("glfw"), H("window")}

NoDevicesFound == "[ERROR] Failed to find GPUs with Vulkan support!"
NoSuitableDevice == "[ERROR] No suitable GPU found!"
\* the errors of the steps that precede pickPhysicalDevice
ErrorsBeforePick ==
    {LayerUnavailable, "[ERROR] Failed to create instance!",
     "[ERROR] Failed to setup the debug messenger!",
     "[ERROR] Failed to create presentation surface!"}
\* pickPhysicalDevice was called and is over
PickOver ==
    /\ snapshot # "instance"
    /\ IF Exited THEN error \notin ErrorsBeforePick
       ELSE PositionOf(run(snapshot), pc)
              > PositionOf(run(snapshot), "pickPhysicalDeviceEnd")
NoneSuitable == \A k \in 1..Len(devices) : ~isDeviceSuitable(snapshot, devices[k])
\* handles made by the steps that follow pickPhysicalDevice
MadeAfterPick ==
    {h \in Range(createLog) :
       h.kind \in {"device", "swapChain", "imageView", "vertShaderModule",
                   "fragShaderModule", "pipelineLayout"}}

\* C16: pickPhysicalDevice fails with the no-devices error exactly when the
\* enumeration is empty, and with the different no-suitable-device error
\* exactly when the enumeration is not empty and holds no suitable device;
\* in both cases no physical device is selected and no logical device,
\* swapchain or later handle is created.
C16_PickErrors ==
    /\ NoDevicesFound # NoSuitableDevice
    /\ PickOver =>
         /\ error = NoDevicesFound <=> Len(devices) = 0
         /\ error = NoSuitableDevice <=> (Len(devices) > 0 /\ NoneSuitable)
    /\ error \in {NoDevicesFound, NoSuitableDevice} =>
         /\ PickOver
         /\ physicalDevice = VK_NULL_HANDLE
         /\ MadeAfterPick = {}

\* two devices without a graphics queue family were enumerated: the run
\* ended with the no-suitable-device error and nothing selected
C16_Witness ==
    /\ Exited
    /\ devices = <<ComputeDevice, ComputeDevice>>
    /\ error = NoSuitableDevice
    /\ physicalDevice = VK_NULL_HANDLE
    /\ H("surface") \in alive
    /\ H("device") \notin alive

ImageViewCreationFailed == "[ERROR] Failed to create image view!"
IsImageView(h) == h.kind = "imageView"
ViewsCreated == SelectSeq(createLog, IsImageView)
\* the views of the first n images, in image order
ViewsOfFirst(n) == [k \in 1..n |-> ImageView(k - 1)]
\* createImageViews was called and returned
ImageViewsDone ==
    /\ HasSurface(snapshot)
    /\ ~Exited
    /\ PositionOf(run(snapshot), pc)
         > PositionOf(run(snapshot), "vkCreateImageView")

\* C17: createImageViews creates the views in image order, one per
\* swapchain image: at any time the views created are those of the first
\* images, and once it has returned there is exactly one per image. If the
\* view of image i cannot be created the run ends with the image-view
\* error, the views created are those of images 0..i-1 and no other, and
\* all of them are still alive.
C17_ImageViews ==
    /\ \E n \in 0..Len(swapChainImages) : ViewsCreated = ViewsOfFirst(n)
    /\ ImageViewsDone =>
         /\ ViewsCreated = ViewsOfFirst(Len(swapChainImages))
         /\ swapChainImageViews = ViewsCreated
    /\ error = ImageViewCreationFailed =>
         /\ Exited
         /\ i < Len(swapChainImages)
         /\ ViewsCreated = ViewsOfFirst(i)
         /\ Range(ViewsCreated) \subseteq alive

\* of two images the first got its view and the second did not
C17_Witness ==
    /\ error = ImageViewCreationFailed
    /\ Len(swapChainImages) = 2
    /\ i = 1
    /\ swapChainImageViews = <<ImageView(0), NullHandle>>
    /\ alive \cap {ImageView(0), ImageView(1)} = {ImageView(0)}

\* ------------------------------------------------------------------------
\* Properties: pipeline assembly
\* ------------------------------------------------------------------------
ShaderModules == {H("vertShaderModule"), H("fragShaderModule")}
\* how many times h was passed to a destroy operation
TimesDestroyed(h) == Cardinality({k \in 1..Len(destroyLog) : destroyLog[k] = h})
\* createGraphicsPipeline was called and returned
PipelineDone ==
    /\ snapshot = "graphicsPipeline"
    /\ IF Exited THEN ~Failed
       ELSE PositionOf(run(snapshot), pc)
              > PositionOf(run(snapshot), "vkDestroyFragShaderModule")

\* C18: once createGraphicsPipeline has returned, both shader modules it
\* created have been destroyed, each exactly once however far cleanup()
\* has got, and the pipeline layout is alive until cleanup() starts; a
\* shader module is destroyed only after the pipeline layout was created.
C18_ShaderModulesTransient ==
    /\ PipelineDone =>
         /\ ShaderModules \subseteq Range(createLog)
         /\ ShaderModules \cap alive = {}
         /\ \A h \in ShaderModules : TimesDestroyed(h) = 1
    /\ (PipelineDone /\ pc = "mainLoop") => H("pipelineLayout") \in alive
    /\ \A h \in ShaderModules :
         h \in Destroyed => H("pipelineLayout") \in Range(createLog)

\* cleanup() of the last snapshot ran to its end: the two shader modules
\* went first, before the pipeline layout, and only once
C18_Witness ==
    /\ Finished
    /\ snapshot = "graphicsPipeline"
    /\ SubSeq(destroyLog, 1, 3) =
         <<H("vertShaderModule"), H("fragShaderModule"), H("pipelineLayout")>>
    /\ \A h \in ShaderModules : TimesDestroyed(h) = 1

\* ------------------------------------------------------------------------
\* Properties: one-shot teardown
\* ------------------------------------------------------------------------
\* C19: teardown is one-shot: a second invocation of cleanup() on the same
\* handles is rejected and destroys nothing, so no handle is ever passed to
\* a destroy operation twice.
C19_OneShotGuard ==
    \A h \in Range(destroyLog) : TimesDestroyed(h) <= 1

\* ------------------------------------------------------------------------
\* Properties: debug messenger
\* ------------------------------------------------------------------------
Messenger == H("debugMessenger")
\* the position of h in log, 0 when it is not there
IndexIn(log, h) ==
    IF h \in Range(log) THEN CHOOSE k \in 1..Len(log) : log[k] = h ELSE 0
\* the position of pc in run() is beyond that of step
Past(step) ==
    /\ step \in Range(run(snapshot))
    /\ IF Exited THEN ~Failed
       ELSE PositionOf(run(snapshot), pc) > PositionOf(run(snapshot), step)

\* C20: the debug messenger is created if and only if diagnostics are
\* enabled, and after the instance; cleanup() destroys it if and only if
\* diagnostics are enabled, hence never when it was not created, and
\* before it destroys the instance.
C20_MessengerLifecycle ==
    /\ Messenger \in Range(createLog) =>
         /\ enableValidationLayers
         /\ 0 < IndexIn(createLog, H("instance"))
         /\ IndexIn(createLog, H("instance")) < IndexIn(createLog, Messenger)
    /\ Past("setupDebugMessenger") =>
         (Messenger \in Range(createLog) <=> enableValidationLayers)
    /\ Messenger \in Destroyed =>
         /\ enableValidationLayers
         /\ Messenger \in Range(createLog)
    /\ Past("DestroyDebugUtilsMessengerEXT") =>
         (Messenger \in Destroyed <=> enableValidationLayers)
    /\ H("instance") \in Destroyed =>
         \/ Messenger \notin Range(createLog)
         \/ /\ 0 < IndexIn(destroyLog, Messenger)
            /\ IndexIn(destroyLog, Messenger) < IndexIn(destroyLog, H("instance"))

\* a complete run with diagnostics on: the messenger came right after the
\* instance and left before it
C20_Witness ==
    /\ Finished
    /\ enableValidationLayers
    /\ IndexIn(createLog, Messenger) = IndexIn(createLog, H("instance")) + 1
    /\ 0 < IndexIn(destroyLog, Messenger)
    /\ IndexIn(destroyLog, Messenger) < IndexIn(destroyLog, H("instance"))

\* ------------------------------------------------------------------------
\* Properties: error taxonomy
\* ------------------------------------------------------------------------
ContextCreationFailed == "[ERROR] Failed to create instance!"
SurfaceCreationFailed == "[ERROR] Failed to create presentation surface!"
DeviceCreationFailed == "[ERROR] Failed to create logical device!"
SwapchainCreationFailed == "[ERROR] Failed to create swap chain!"
ShaderModuleCreationFailed == "[ERROR] Failed to create shader module!"
PipelineLayoutCreationFailed == "[ERROR] Failed to create pipeline layout!"
MessengerSetupFailed == "[ERROR] Failed to setup the debug messenger!"
FileOpenFailed == "[ERROR] Failed to open file!"
Taxonomy ==
    {LayerUnavailable, ContextCreationFailed, SurfaceCreationFailed,
     NoDevicesFound, NoSuitableDevice, DeviceCreationFailed,
     SwapchainCreationFailed, ImageViewCreationFailed,
     ShaderModuleCreationFailed, PipelineLayoutCreationFailed}

\* C21 as stated: every failure initialization raises is one of the ten
\* kinds of the taxonomy.
C21_TenKinds == Failed => error \in Taxonomy

\* C21 amended: every failure initialization raises is one of twelve
\* kinds: the ten of the taxonomy, the failure to set up the debug
\* messenger and the failure to open a shader file.
C21_TwelveKinds ==
    Failed => error \in Taxonomy \cup {MessengerSetupFailed, FileOpenFailed}

\* the debug messenger could not be set up: the run ended right after the
\* instance was made, with an error of its own kind
C21_Witness ==
    /\ Exited
    /\ error = MessengerSetupFailed
    /\ error \notin Taxonomy
    /\ createLog = <<H("glfw"), H("window"), H("instance")>>

\* ------------------------------------------------------------------------
\* Properties: no retry
\* ------------------------------------------------------------------------
\* how many times h was created
TimesCreated(h) == Cardinality({k \in 1..Len(createLog) : createLog[k] = h})
Created == Range(createLog)

\* C22: no creation operation is retried: every handle is created at most
\* once, a creation that failed was not attempted before (the handle it was
\* to make does not exist), each shader blob is wrapped at most once and
\* each swapchain image gets at most one view-creation attempt; once
\* createInstance has returned there is exactly one instance.
C22_NoRetry ==
    /\ \A h \in Created : TimesCreated(h) = 1
    /\ error = ContextCreationFailed => H("instance") \notin Created
    /\ error = MessengerSetupFailed => Messenger \notin Created
    /\ error = SurfaceCreationFailed => H("surface") \notin Created
    /\ error = DeviceCreationFailed => H("device") \notin Created
    /\ error = SwapchainCreationFailed => H("swapChain") \notin Created
    /\ error = PipelineLayoutCreationFailed => H("pipelineLayout") \notin Created
    /\ error = ShaderModuleCreationFailed => H("fragShaderModule") \notin Created
    /\ error = ImageViewCreationFailed =>
         \A k \in i..Len(swapChainImages) : ImageView(k) \notin Created
    /\ Past("createInstance") => TimesCreated(H("instance")) = 1

\* a complete run of the last snapshot with two swapchain images: eleven
\* handles, each created once
C22_Witness ==
    /\ Finished
    /\ snapshot = "graphicsPipeline"
    /\ Len(swapChainImages) = 2
    /\ {ImageView(0), ImageView(1), H("pipelineLayout")} \subseteq Created
    /\ Len(createLog) = Cardinality(Created)

\* ------------------------------------------------------------------------
\* Properties: instance extensions
\* ------------------------------------------------------------------------
\* vkCreateInstance was called
InstanceRequested == instanceCreateInfo # NoInstanceCreateInfo
DebugUtilsIfEnabled ==
    IF enableValidationLayers THEN <<VK_EXT_DEBUG_UTILS_EXTENSION_NAME>> ELSE <<>>
PortabilityIfApple ==
    IF __APPLE__ THEN <<VK_KHR_PORTABILITY_ENUMERATION_EXTENSION_NAME>> ELSE <<>>

\* C23: the extension list passed to vkCreateInstance is exactly the
\* extensions the windowing library asks for, followed by the debug-utils
\* extension if and only if diagnostics are enabled, followed on the Apple
\* build only by the portability-enumeration extension; the portability
\* flag is set on the Apple build and on no other.
C23_InstanceExtensions ==
    InstanceRequested =>
      /\ instanceCreateInfo.ppEnabledExtensionNames =
           glfwExtensions \o DebugUtilsIfEnabled \o PortabilityIfApple
      /\ (VK_INSTANCE_CREATE_ENUMERATE_PORTABILITY_BIT_KHR
            \in instanceCreateInfo.flags) <=> __APPLE__

\* an Apple build with diagnostics on: two window extensions, debug-utils
\* and portability enumeration, in that order, with the flag
C23_Witness ==
    /\ H("instance") \in alive
    /\ __APPLE__
    /\ enableValidationLayers
    /\ glfwExtensions = <<"VK_KHR_surface", "VK_EXT_metal_surface">>
    /\ instanceCreateInfo.ppEnabledExtensionNames =
         <<"VK_KHR_surface", "VK_EXT_metal_surface",
           VK_EXT_DEBUG_UTILS_EXTENSION_NAME,
           VK_KHR_PORTABILITY_ENUMERATION_EXTENSION_NAME>>
    /\ instanceCreateInfo.flags = {VK_INSTANCE_CREATE_ENUMERATE_PORTABILITY_BIT_KHR}

\* ------------------------------------------------------------------------
\* Properties: present mode membership
\* ------------------------------------------------------------------------
ChosenPresentMode == createInfo.presentMode

\* C24 as stated: the chosen present mode is an element of the supported
\* present-mode list, for every non-empty list.
C24_ChosenIsSupported ==
    Negotiated => ChosenPresentMode \in Range(SupportedPresentModes)

\* C24 amended: the chosen present mode is an element of the supported
\* list whenever the list holds the mailbox or the FIFO mode; for a list
\* holding neither the result is FIFO, a mode the device did not report.
C24_ChosenIsSupportedGivenFifo ==
    Negotiated =>
      IF {VK_PRESENT_MODE_MAILBOX_KHR, VK_PRESENT_MODE_FIFO_KHR}
           \cap Range(SupportedPresentModes) # {}
      THEN ChosenPresentMode \in Range(SupportedPresentModes)
      ELSE ChosenPresentMode = VK_PRESENT_MODE_FIFO_KHR

\* FIFO stands second in a list without mailbox, and is chosen
C24_Witness ==
    /\ Negotiated
    /\ SupportedPresentModes =
         <<"VK_PRESENT_MODE_IMMEDIATE_KHR", VK_PRESENT_MODE_FIFO_KHR>>
    /\ ChosenPresentMode = VK_PRESENT_MODE_FIFO_KHR

\* ------------------------------------------------------------------------
\* Properties: creation order
\* ------------------------------------------------------------------------
\* the handles h is made from
DependsOn(h) ==
    CASE h.kind \in {"debugMessenger", "surface"} -> {H("instance")}
      [] h.kind = "swapChain" -> {H("device")}
      [] h.kind = "imageView" -> {H("swapChain")}
      [] h.kind \in {"vertShaderModule", "fragShaderModule", "pipelineLayout"}
           -> {H("device")}
      [] OTHER -> {}

\* C25: every handle is created when the handles it depends on exist and
\* none of them has been destroyed: the instance before the debug messenger
\* and the surface, the surface before a physical device is selected, the
\* selected physical device before the logical device, the logical device
\* before the swapchain, the swapchain before any image view, the logical
\* device before the shader modules and the pipeline layout.
C25_CreationOrder ==
    /\ [](\A h \in Created : \A d \in DependsOn(h) :
             /\ d \in Created
             /\ IndexIn(createLog, d) < IndexIn(createLog, h))
    /\ [][/\ \A h \in alive' \ alive :
               /\ DependsOn(h) \subseteq alive
               /\ Destroyed = {}
               /\ h = H("device") => physicalDevice # VK_NULL_HANDLE
          /\ (physicalDevice' # physicalDevice /\ HasSurface(snapshot))
               => H("surface") \in alive]_vars

\* initialization of the last snapshot is over, diagnostics on: every
\* handle came after the ones it is made from
C25_Witness ==
    /\ pc = "vkDestroyVertShaderModule"
    /\ physicalDevice # VK_NULL_HANDLE
    /\ createLog =
         <<H("glfw"), H("window"), H("instance"), Messenger, H("surface"),
           H("device"), H("swapChain"), ImageView(0),
           H("vertShaderModule"), H("fragShaderModule"), H("pipelineLayout")>>
    /\ alive = Created

\* ------------------------------------------------------------------------
\* Properties: shader modules on failure
\* ------------------------------------------------------------------------
\* createGraphicsPipeline was entered and left, by return or by exception
PipelineLeft ==
    \/ PipelineDone
    \/ /\ Exited
       /\ error \in {FileOpenFailed, ShaderModuleCreationFailed,
                      PipelineLayoutCreationFailed}

\* C26: on every exit path of createGraphicsPipeline, the failure of the
\* second shader-module creation and of the pipeline-layout creation
\* included, every shader module it created has been destroyed.
C26_ShaderModulesReleased ==
    PipelineLeft => ShaderModules \cap alive = {}

\* ------------------------------------------------------------------------
\* Properties: use of the selected device
\* ------------------------------------------------------------------------
BadOptionalAccess == "bad optional access"
\* createLogicalDevice or createSwapChain is about to run or has run
DeviceInUse ==
    \/ pc \in {"createLogicalDevice", "createSwapChain"}
    \/ H("device") \in Created
    \/ Negotiated
    \/ error \in {DeviceCreationFailed, SwapchainCreationFailed, BadOptionalAccess}

\* C27: createLogicalDevice and createSwapChain run only for a physical
\* device that isDeviceSuitable accepted: a device was selected, it has a
\* graphics and a presenting queue family, so that every value() finds its
\* optional engaged and no bad-optional-access is raised, and its format
\* list, indexed at position 0 by chooseSwapSurfaceFormat, is not empty.
C27_SuitableDeviceInUse ==
    /\ error # BadOptionalAccess
    /\ DeviceInUse =>
         /\ physicalDevice # VK_NULL_HANDLE
         /\ ~Defective(devices[physicalDevice])
         /\ has_value(findQueueFamilies(snapshot, devices[physicalDevice]).graphicsFamily)
         /\ has_value(findQueueFamilies(snapshot, devices[physicalDevice]).presentFamily)
         /\ Len(querySwapChainSupport(devices[physicalDevice]).formats) > 0

\* a device without surface formats stood first: the swapchain was
\* negotiated on the second device
C27_Witness ==
    /\ Negotiated
    /\ H("swapChain") \in alive
    /\ Len(devices) = 2
    /\ Len(devices[1].formats) = 0
    /\ physicalDevice = 2
    /\ has_value(indices.graphicsFamily)
    /\ has_value(indices.presentFamily)

\* C28: the result of findQueueFamilies is complete exactly when the device
\* has a graphics-capable family and a family able to present to the
\* surface; a recorded index is less than the number of families and
\* denotes a family that has the corresponding capability.
C28_IndicesSound ==
    Examined >= 1 =>
        LET dev == devices[Examined]
            count == Len(dev.queueFamilies)
            g == indices.graphicsFamily
            p == indices.presentFamily
        IN  /\ isComplete(snapshot, indices)
                  <=> (HasGraphicsFamily(dev) /\ HasPresentFamily(dev))
            /\ has_value(g) => g >= 0 /\ g < count /\ dev.queueFamilies[g + 1].graphics
            /\ has_value(p) => p >= 0 /\ p < count /\ dev.queueFamilies[p + 1].present

\* a presenting family precedes every graphics-capable one: the result is
\* complete with two different indices
C28_Witness ==
    /\ Examined = 1
    /\ Len(devices[1].queueFamilies) = 3
    /\ GraphicsPositions(devices[1]) = {2}
    /\ PresentPositions(devices[1]) = {0, 1}
    /\ isComplete(snapshot, indices)
    /\ indices = [graphicsFamily |-> 2, presentFamily |-> 1]

\* ------------------------------------------------------------------------
\* Properties: release of resources
\* ------------------------------------------------------------------------
ViewsDestroyed == SelectSeq(destroyLog, IsImageView)
\* the handles the program holds when the event loop ends
HeldAtCleanup ==
    (IF snapshot = "graphicsPipeline" THEN {H("pipelineLayout")} ELSE {})
    \cup (IF HasSurface(snapshot)
          THEN {ImageView(k - 1) : k \in 1..Len(swapChainImages)}
               \cup {H("swapChain"), H("device"), H("surface")}
          ELSE {})
    \cup (IF HasValidation(snapshot) /\ enableValidationLayers
          THEN {Messenger} ELSE {})
    \cup {H("instance"), H("window"), H("glfw")}

\* C29: in a run in which initialization succeeds and the event loop ends,
\* every handle the program created and still holds (pipeline layout, each
\* image view, swapchain, logical device, debug messenger when enabled,
\* surface, instance, window) has been destroyed exactly once when the
\* process exits: none is leaked, none is destroyed twice, and as many
\* image views were destroyed as swapchain images were acquired.
C29_ReleasedExactlyOnce ==
    Finished =>
        /\ HeldAtCleanup \subseteq Created
        /\ \A h \in Created : TimesDestroyed(h) = 1
        /\ \A h \in Destroyed : h \in Created
        /\ alive = {}
        /\ Len(ViewsDestroyed) = Len(swapChainImages)

\* a complete run of the last snapshot with diagnostics on and two
\* swapchain images: two image views were destroyed
C29_Witness ==
    /\ Finished
    /\ snapshot = "graphicsPipeline"
    /\ enableValidationLayers
    /\ Len(swapChainImages) = 2
    /\ Len(ViewsDestroyed) = 2
    /\ TimesDestroyed(H("pipelineLayout")) = 1
    /\ TimesDestroyed(Messenger) = 1

\* ------------------------------------------------------------------------
\* Properties: termination
\* ------------------------------------------------------------------------
\* cleanup() was entered
CleanupStarted ==
    \/ pc \in Range(cleanup(snapshot)) \cup {"return"}
    \/ Destroyed \cap (HeldAtCleanup \cup {H("glfw")}) # {}
InitSucceeded == pc = "mainLoop"
CleanupCompleted == alive = {} /\ H("glfw") \in Destroyed

\* C30: cleanup() never starts while glfwWindowShouldClose answers that
\* the window should not close, and the event loop is left only on that
\* answer; if initialization succeeds and the window is eventually reported
\* as to be closed, the program eventually leaves the event loop, completes
\* cleanup() and exits with status zero.
C30_CleanupAfterClose ==
    /\ [](CleanupStarted => shouldClose)
    /\ [][pc = "mainLoop" /\ pc' # "mainLoop" => shouldClose]_vars
    /\ []((InitSucceeded /\ <>shouldClose)
            => <>(Finished /\ CleanupCompleted /\ exitStatus = 0))

\* a run without diagnostics and with one swapchain image that left the
\* event loop on the close request and ended after cleanup()
C30_Witness ==
    /\ Finished
    /\ shouldClose
    /\ CleanupCompleted
    /\ snapshot = "graphicsPipeline"
    /\ ~enableValidationLayers
    /\ Len(swapChainImages) = 1

====
